---------------------------- MODULE Spec2Model ----------------------------
(***************************************************************************)
(* Web Page Replay: the command-line supervisor of src/replay.py.          *)
(*                                                                         *)
(* The process is modelled from the point where optparse has the command   *)
(* line (replay.py:236) to the point where the process is gone.  `pc' is   *)
(* the position of the main thread in replay.py.  The three scoped         *)
(* resources of main() (DnsProxyServer, the replay server class and        *)
(* TrafficShaper) live in modules that are not part of the source tree at  *)
(* hand; their lifecycle is modelled from the specification (sections 4.1  *)
(* to 4.5), the `with' statement that drives them is modelled from         *)
(* replay.py.                                                              *)
(*                                                                         *)
(* The second half of the module is the performance tracker of             *)
(* src/perftracker/app/main.py: the three upload handlers, the JSON data   *)
(* page and the memcache entries it fills.  The tracker is a separate      *)
(* program with a state of its own; the specification Spec runs the        *)
(* supervisor and leaves the tracker alone, SpecTracker does the reverse.  *)
(***************************************************************************)
EXTENDS Integers, Sequences, FiniteSets, TLC

VARIABLES
  pc,            \* position of the main thread in replay.py
  options,       \* optparse's options object (the fields replay.py reads)
  args,          \* optparse's positional arguments
  stderr,        \* what option_parser.error wrote, "" when nothing
  logged,        \* the logging levels used so far, and "traceback" for print
  exitKind,      \* "running", or how the process ended
  exitCode,      \* the process's exit status, -1 while it runs
  exc,           \* the exception being propagated, "none" when none
  sysDns,        \* the platform's primary DNS setting
  savedDns,      \* platformsettings' snapshot of it, "unset" when none
  setCalls,      \* calls of set_primary_dns made by point_dns
  setDone,       \* calls of set_primary_dns that returned normally
  restoreCalls,  \* calls of restore_primary_dns made by point_dns
  replay_server_class,  \* main's local, "unset" before line 83
  host,          \* main's local, "unset" before line 95
  res,           \* lifecycle of each scoped resource of main
  dns_args,      \* what DnsProxyServer was constructed with
  server_args,   \* what the replay server was constructed with
  shaper_args,   \* what TrafficShaper was constructed with
  events,        \* history: the __enter__ returns and __exit__ calls, in order
  archive,       \* request keys held by the archive file
  archive0,      \* the archive as the replay server loaded it
  nRequests,     \* requests served so far
  lastRequest,   \* key of the request served last, "none" before the first
  lastResponse,  \* the response it got
  originFetches  \* requests forwarded to a real origin so far

vars == << pc, options, args, stderr, logged, exitKind, exitCode, exc,
           sysDns, savedDns, setCalls, setDone, restoreCalls,
           replay_server_class, host, res, dns_args, server_args,
           shaper_args, events, archive, archive0, nRequests, lastRequest,
           lastResponse, originFetches >>

procVars == << pc, exitKind, exitCode, exc, logged, stderr >>
dnsVars == << sysDns, savedDns, setCalls, setDone, restoreCalls >>
mainVars == << replay_server_class, host, res, dns_args, server_args,
               shaper_args, events >>
httpVars == << archive, nRequests, lastRequest, lastResponse, originFetches >>

VARIABLES
  now,           \* the tracker's clock, in seconds
  ticks,         \* how many times the clock has moved
  sets,          \* the TestSet entities of the datastore, by key
  results,       \* the TestResult entities, by key
  summaries,     \* the TestSummary entities, by key
  history,       \* history: the datastore after each put, oldest first
  cache,         \* memcache: the live entries, one for a key at most
  inflight,      \* the JSONDataPage requests between their query and add
  nQueries,      \* JSONDataPage requests that queried for memcache so far
  lastResp       \* what the last step wrote as its response, if it wrote

storeVars == << sets, results, summaries, history >>
trackerVars == << now, ticks, sets, results, summaries, history, cache,
                  inflight, nQueries, lastResp >>
allVars == << vars, trackerVars >>

-----------------------------------------------------------------------------
(* Bounds of the model *)

\* Requests the replay server answers in one session.
MaxRequests == 2

\* Requests that change what the tracker holds: the uploads that put an
\* entity and the JSONDataPage requests that query for memcache.
MaxWork == 3

\* Steps of the tracker's clock.
MaxTicks == 1

\* JSONDataPage requests between their query and their memcache.add at once.
MaxInflight == 2

-----------------------------------------------------------------------------
(* Values *)

Resources == << "dns", "replay", "shaper" >>
ResourceSet == { Resources[i] : i \in 1..Len(Resources) }

\* Python's None and False as optparse stores them in string-typed options.
None == "None"
False == "False"

\* The address given to --server, the loopback address of line 63, and the
\* address socket.gethostbyname(socket.gethostname()) resolves to.
ServerIP == "10.0.0.2"
Loopback == "127.0.0.1"
HostIP == "192.168.0.7"

\* The resolver configuration the platform has when the process starts.
OriginalDns == "8.8.8.8"

\* Values of the string-typed network options: the default and another one.
NetValues == { "0", "1" }
SpdyValues == { False, "yes", "no-ssl" }
ArgLists == { << >>, << "a.wpr" >>, << "a.wpr", "b.wpr" >> }
Keys == { "k1", "k2" }

\* Python truthiness of a string-typed option whose default is None or False.
Truthy(v) == v \notin { None, False, "" }

Defaults ==
  [ spdy |-> False, record |-> FALSE, up |-> "0", down |-> "0",
    delay_ms |-> "0", packet_loss_rate |-> "0", init_cwnd |-> "0",
    server |-> None, server_mode |-> FALSE ]

OptionSpace ==
  [ spdy : SpdyValues, record : BOOLEAN, up : NetValues, down : NetValues,
    delay_ms : NetValues, packet_loss_rate : NetValues,
    init_cwnd : NetValues, server : { None, ServerIP },
    server_mode : BOOLEAN ]

NoResponse == [ status |-> 0, body |-> "", origin |-> FALSE ]
UnsetDnsArgs == [ host |-> "unset" ]
UnsetServerArgs == [ class |-> "unset", host |-> "unset", use_ssl |-> FALSE ]
UnsetShaperArgs ==
  [ host |-> "unset", up |-> "unset", down |-> "unset", delay_ms |-> "unset",
    packet_loss_rate |-> "unset", init_cwnd |-> "unset" ]

-----------------------------------------------------------------------------
(* Values of the tracker, perftracker/app/main.py *)

\* Datastore keys are the entities' positions; a key no entity has.
NoSuchId == MaxWork + 1

\* The properties of a TestSet the data page filters on.  network_type is
\* the string NetworkPrettyString makes of the uploaded network profile;
\* the profiles are numbered in the order of their strings.
Versions == { 1, 2 }
Networks == { 1, 2 }
Profiles == { << 2, 1 >>, << 1, 2 >> }
Urls == { 1 }

\* The request parameters the handlers read; 0 and {} are a parameter that
\* is not given.
BlankRequest ==
  [ path |-> "", type |-> "", cmd |-> "", id |-> 0, set_id |-> 0,
    networks_filter |-> {}, version_filter |-> {},
    version |-> 0, network |-> 0, url |-> 0 ]

Slots == 1 .. MaxInflight
IdleSlot ==
  [ at |-> "idle", request |-> BlankRequest, body |-> << >>,
    snap |-> 0, queried |-> 0 ]

\* What a step of a handler wrote; for a response with a body also the
\* datastore the body was computed from (an index of history), when it was
\* computed, when memcache got it and when it was written.  NoResp after a
\* step that wrote nothing.
NoResp ==
  [ request |-> BlankRequest, status |-> "none", error |-> "",
    body |-> << >>, snap |-> 0, queried |-> 0, added |-> 0, served |-> 0,
    hit |-> FALSE ]

\* The datastore of a fresh deployment, as history keeps it: the entity
\* tables and the time of the put that made them.
EmptyStore ==
  [ sets |-> << >>, results |-> << >>, summaries |-> << >>, time |-> 0 ]

TrackerInit ==
  /\ now = 0
  /\ ticks = 0
  /\ sets = << >>
  /\ results = << >>
  /\ summaries = << >>
  /\ history = << EmptyStore >>
  /\ cache = {}
  /\ inflight = [ i \in Slots |-> IdleSlot ]
  /\ nQueries = 0
  /\ lastResp = NoResp

-----------------------------------------------------------------------------
Init ==
  /\ pc = "parse"
  /\ options = Defaults
  /\ args = << >>
  /\ stderr = ""
  /\ logged = {}
  /\ exitKind = "running"
  /\ exitCode = -1
  /\ exc = "none"
  /\ sysDns = OriginalDns
  /\ savedDns = "unset"
  /\ setCalls = 0
  /\ setDone = 0
  /\ restoreCalls = 0
  /\ replay_server_class = "unset"
  /\ host = "unset"
  /\ res = [ r \in ResourceSet |-> "idle" ]
  /\ dns_args = UnsetDnsArgs
  /\ server_args = UnsetServerArgs
  /\ shaper_args = UnsetShaperArgs
  /\ events = << >>
  /\ archive0 = {}
  /\ archive = {}
  /\ nRequests = 0
  /\ lastRequest = "none"
  /\ lastResponse = NoResponse
  /\ originFetches = 0
  /\ TrackerInit

-----------------------------------------------------------------------------
(* __main__: option parsing and validation, replay.py:236-271 *)

\* options, args = option_parser.parse_args()
ParseArgs ==
  /\ pc = "parse"
  /\ options' \in OptionSpace
  /\ args' \in ArgLists
  /\ pc' = "validate"
  /\ UNCHANGED << stderr, logged, exitKind, exitCode, exc, archive0 >>
  /\ UNCHANGED << dnsVars, mainVars, httpVars >>
  /\ UNCHANGED trackerVars

\* ValidationError without the --spdy test of line 260.
ValidationErrorNoSpdyTest(o, a) ==
  IF ~Truthy(o.server) /\ Len(a) # 1
    THEN "Must specify a replay_file"
  ELSE IF o.record /\ o.up # "0"
    THEN "Option --up cannot be used with --record."
  ELSE IF o.record /\ o.down # "0"
    THEN "Option --down cannot be used with --record."
  ELSE IF o.record /\ o.delay_ms # "0"
    THEN "Option --delay_ms cannot be used with --record."
  ELSE IF o.record /\ o.packet_loss_rate # "0"
    THEN "Option --packet_loss_rate cannot be used with --record."
  ELSE IF Truthy(o.server) /\ o.server_mode
    THEN "Cannot run with both --server and --server_mode"
  ELSE ""

\* The first option_parser.error the validation reaches, "" when none.
ValidationError(o, a) ==
  IF ~Truthy(o.server) /\ Len(a) # 1
    THEN "Must specify a replay_file"
  ELSE IF o.record /\ o.up # "0"
    THEN "Option --up cannot be used with --record."
  ELSE IF o.record /\ o.down # "0"
    THEN "Option --down cannot be used with --record."
  ELSE IF o.record /\ o.delay_ms # "0"
    THEN "Option --delay_ms cannot be used with --record."
  ELSE IF o.record /\ o.packet_loss_rate # "0"
    THEN "Option --packet_loss_rate cannot be used with --record."
  ELSE IF o.record /\ Truthy(o.spdy)
    THEN "Option --spdy cannot be used with --record."
  ELSE IF Truthy(o.server) /\ o.server_mode
    THEN "Cannot run with both --server and --server_mode"
  ELSE ""

\* optparse's OptionParser.error(msg): print the usage and msg to stderr,
\* then sys.exit(2).
OptionParserErrorStatus == 2

\* if options.spdy and options.deterministic_script: logging.warning(...)
\* (deterministic_script keeps its default, True).
SpdyWarning(o) == IF Truthy(o.spdy) THEN { "warning" } ELSE {}

\* The validation run only once main is at work: the command line goes to
\* main unchecked, and option_parser.error is reached from the sleep loops.
ValidateLate ==
  /\ \/ /\ pc = "validate"
        /\ pc' = "main"
        /\ UNCHANGED << stderr, exitKind, exitCode, logged >>
     \/ /\ pc \in { "pd_sleep", "serving" }
        /\ ValidationError(options, args) # ""
        /\ pc' = "exited"
        /\ stderr' = ValidationError(options, args)
        /\ exitKind' = "argerror"
        /\ exitCode' = OptionParserErrorStatus
        /\ UNCHANGED logged
  /\ UNCHANGED << options, args, exc, archive0 >>
  /\ UNCHANGED << dnsVars, mainVars, httpVars >>
  /\ UNCHANGED trackerVars

Validate ==
  /\ pc = "validate"
  /\ LET msg == ValidationError(options, args) IN
       IF msg # ""
         THEN /\ pc' = "exited"
              /\ stderr' = msg
              /\ exitKind' = "argerror"
              /\ exitCode' = OptionParserErrorStatus
              /\ UNCHANGED logged
         ELSE /\ pc' = "main"
              /\ logged' = logged \cup SpdyWarning(options)
              /\ UNCHANGED << stderr, exitKind, exitCode >>
  /\ UNCHANGED << options, args, exc, archive0 >>
  /\ UNCHANGED << dnsVars, mainVars, httpVars >>
  /\ UNCHANGED trackerVars

-----------------------------------------------------------------------------
(* Signals.  replay.py installs no signal handler: SIGINT reaches the main *)
(* thread as KeyboardInterrupt between two bytecodes, and a signal whose   *)
(* default action is to terminate (SIGTERM, SIGKILL: what `kill' sends)    *)
(* ends the process without running any except or finally clause.          *)

\* Terminated by a signal: no Python code runs any more; the status is the
\* negated signal number (SIGTERM is 15).
Killed ==
  /\ exitKind = "running"
  /\ pc' = "exited"
  /\ exitKind' = "killed"
  /\ exitCode' = -15
  /\ UNCHANGED << options, args, stderr, logged, exc, archive0 >>
  /\ UNCHANGED << dnsVars, mainVars, httpVars >>
  /\ UNCHANGED trackerVars

\* An exception that leaves main(): the interpreter prints the traceback
\* and the process ends with status 1.
Uncaught(e) ==
  /\ pc' = "exited"
  /\ exc' = e
  /\ exitKind' = "uncaught"
  /\ exitCode' = 1
  /\ logged' = logged \cup { "traceback" }
  /\ UNCHANGED stderr

\* sys.exit(main(options, args)) once main has returned: main has no return
\* statement with a value, so the argument is None and the status is 0.
MainReturnValue == None
SysExitStatus(v) == IF v = None THEN 0 ELSE 1

MainReturns ==
  /\ pc' = "exited"
  /\ exitKind' = "returned"
  /\ exitCode' = SysExitStatus(MainReturnValue)
  /\ UNCHANGED stderr

-----------------------------------------------------------------------------
(* platformsettings: set_primary_dns / restore_primary_dns (section 4.4)   *)

\* set-primary-dns, first half: snapshot the current resolver configuration
\* (snapshots are taken once per process).
SnapshotDns(saved, current) == IF saved = "unset" THEN current ELSE saved

\* restore-primary-dns: reinstate the snapshot; nothing to reinstate when
\* no snapshot was taken.
RestoredDns(saved, current) == IF saved = "unset" THEN current ELSE saved

-----------------------------------------------------------------------------
(* main(), replay.py:78-81, and point_dns(), replay.py:66-75 *)

\* main without the test of line 79.
MainBranchNoClientMode(o) == "select"

\* if options.server: point_dns(options.server); return
MainBranch(o) == IF Truthy(o.server) THEN "pd_get" ELSE "select"

MainEntry ==
  /\ pc = "main"
  /\ pc' = MainBranch(options)
  /\ UNCHANGED << options, args, stderr, logged, exitKind, exitCode, exc,
                  archive0 >>
  /\ UNCHANGED << dnsVars, mainVars, httpVars >>
  /\ UNCHANGED trackerVars

\* platform_settings = platformsettings.get_platform_settings()
PointDnsGetSettings ==
  /\ pc = "pd_get"
  /\ pc' = "pd_set"
  /\ UNCHANGED << options, args, stderr, logged, exitKind, exitCode, exc,
                  archive0 >>
  /\ UNCHANGED << dnsVars, mainVars, httpVars >>
  /\ UNCHANGED trackerVars

\* try: platform_settings.set_primary_dns(options.server), up to the snapshot
PointDnsSetSnapshot ==
  /\ pc = "pd_set"
  /\ setCalls' = setCalls + 1
  /\ savedDns' = SnapshotDns(savedDns, sysDns)
  /\ pc' = "pd_set2"
  /\ UNCHANGED << options, args, stderr, logged, exitKind, exitCode, exc,
                  archive0, sysDns, setDone, restoreCalls >>
  /\ UNCHANGED << mainVars, httpVars >>
  /\ UNCHANGED trackerVars

\* set_primary_dns refused by the platform before it took the snapshot.
PointDnsSetFails ==
  /\ pc = "pd_set"
  /\ setCalls' = setCalls + 1
  /\ exc' = "Other"
  /\ pc' = "pd_finally"
  /\ UNCHANGED << options, args, stderr, logged, exitKind, exitCode,
                  archive0, sysDns, savedDns, setDone, restoreCalls >>
  /\ UNCHANGED << mainVars, httpVars >>
  /\ UNCHANGED trackerVars

\* set_primary_dns, second half: redirect the system resolver and return.
PointDnsSetRedirect ==
  /\ pc = "pd_set2"
  /\ sysDns' = options.server
  /\ setDone' = setDone + 1
  /\ pc' = "pd_sleep"
  /\ UNCHANGED << options, args, stderr, logged, exitKind, exitCode, exc,
                  archive0, savedDns, setCalls, restoreCalls >>
  /\ UNCHANGED << mainVars, httpVars >>
  /\ UNCHANGED trackerVars

\* KeyboardInterrupt inside the try block (during set_primary_dns or the
\* sleep loop): control goes to the except clause of line 72.
PointDnsInterrupt ==
  /\ pc \in { "pd_set", "pd_set2", "pd_sleep" }
  /\ setCalls' = IF pc = "pd_set" THEN setCalls + 1 ELSE setCalls
  /\ pc' = "pd_except"
  /\ UNCHANGED << options, args, stderr, logged, exitKind, exitCode, exc,
                  archive0, sysDns, savedDns, setDone, restoreCalls >>
  /\ UNCHANGED << mainVars, httpVars >>
  /\ UNCHANGED trackerVars

\* except KeyboardInterrupt: logging.info('Shutting down.')
PointDnsExcept ==
  /\ pc = "pd_except"
  /\ logged' = logged \cup { "info" }
  /\ pc' = "pd_finally"
  /\ UNCHANGED << options, args, stderr, exitKind, exitCode, exc, archive0 >>
  /\ UNCHANGED << dnsVars, mainVars, httpVars >>
  /\ UNCHANGED trackerVars

\* A second KeyboardInterrupt while the except clause runs: it propagates,
\* through the finally clause.
PointDnsExceptInterrupt ==
  /\ pc = "pd_except"
  /\ exc' = "KeyboardInterrupt"
  /\ pc' = "pd_finally"
  /\ UNCHANGED << options, args, stderr, logged, exitKind, exitCode,
                  archive0 >>
  /\ UNCHANGED << dnsVars, mainVars, httpVars >>
  /\ UNCHANGED trackerVars

\* finally: platform_settings.restore_primary_dns(); then point_dns returns
\* (and main, and sys.exit(None)) or the pending exception leaves main.
PointDnsFinally ==
  /\ pc = "pd_finally"
  /\ restoreCalls' = restoreCalls + 1
  /\ sysDns' = RestoredDns(savedDns, sysDns)
  /\ IF exc = "none"
       THEN MainReturns /\ UNCHANGED << exc, logged >>
       ELSE Uncaught(exc)
  /\ UNCHANGED << options, args, archive0, savedDns, setCalls, setDone >>
  /\ UNCHANGED << mainVars, httpVars >>
  /\ UNCHANGED trackerVars

\* KeyboardInterrupt in the finally clause before restore_primary_dns has
\* acted: the call is abandoned and the exception leaves main.
PointDnsFinallyInterrupt ==
  /\ pc = "pd_finally"
  /\ Uncaught("KeyboardInterrupt")
  /\ UNCHANGED << options, args, archive0 >>
  /\ UNCHANGED << dnsVars, mainVars, httpVars >>
  /\ UNCHANGED trackerVars

PointDns ==
  \/ PointDnsGetSettings
  \/ PointDnsSetSnapshot
  \/ PointDnsSetFails
  \/ PointDnsSetRedirect
  \/ PointDnsInterrupt
  \/ PointDnsExcept
  \/ PointDnsExceptInterrupt
  \/ PointDnsFinally
  \/ PointDnsFinallyInterrupt

-----------------------------------------------------------------------------
(* main(), replay.py:83-127: the supervisor *)

\* The selection of lines 83-91 without the --spdy branch.
ReplayServerClassNoSpdy(o) ==
  IF o.record THEN "RecordHttpProxyServer" ELSE "ReplayHttpProxyServer"

\* The selection of lines 83-91 with the record branch taken always.
ReplayServerClassAlwaysRecord(o) == "RecordHttpProxyServer"

\* Lines 83-91.
ReplayServerClass(o) ==
  IF o.record THEN "RecordHttpProxyServer"
  ELSE IF Truthy(o.spdy) THEN "ReplaySpdyServer"
  ELSE "ReplayHttpProxyServer"

SelectServerClass ==
  /\ pc = "select"
  /\ replay_server_class' = ReplayServerClass(options)
  /\ pc' = "try"
  /\ UNCHANGED << options, args, stderr, logged, exitKind, exitCode, exc,
                  archive0, host, res, dns_args, server_args, shaper_args,
                  events >>
  /\ UNCHANGED << dnsVars, httpVars >>
  /\ UNCHANGED trackerVars

\* KeyboardInterrupt before main's try block is entered (or before main is
\* called): nothing catches it.
InterruptOutsideTry ==
  /\ pc \in { "validate", "main", "select", "pd_get" }
  /\ Uncaught("KeyboardInterrupt")
  /\ UNCHANGED << options, args, archive0 >>
  /\ UNCHANGED << dnsVars, mainVars, httpVars >>
  /\ UNCHANGED trackerVars

\* get_server_address without the test of line 61.
get_server_address_loopback(o) == Loopback

\* Lines 60-63.
get_server_address(o) == IF o.server_mode THEN HostIP ELSE Loopback

\* Lines 94-95: replay_file = args[0]; host = get_server_address(options)
TryBegin ==
  /\ pc = "try"
  /\ host' = get_server_address(options)
  /\ pc' = "with_dns"
  /\ UNCHANGED << options, args, stderr, logged, exitKind, exitCode, exc,
                  archive0, replay_server_class, res, dns_args, server_args,
                  shaper_args, events >>
  /\ UNCHANGED << dnsVars, httpVars >>
  /\ UNCHANGED trackerVars

\* socket.gethostbyname(socket.gethostname()) raising socket.gaierror.
HostLookupFails ==
  /\ pc = "try"
  /\ options.server_mode
  /\ exc' = "Other"
  /\ pc' = "unwind"
  /\ UNCHANGED << options, args, stderr, logged, exitKind, exitCode,
                  archive0 >>
  /\ UNCHANGED << dnsVars, mainVars, httpVars >>
  /\ UNCHANGED trackerVars

\* The nesting of the three with statements, lines 97, 101 and 110.
WithPc(r) == "with_" \o r
AfterWithNoShaper(r) == IF r = "dns" THEN "with_replay" ELSE "serving"
AfterWith(r) ==
  IF r = "dns" THEN "with_replay"
  ELSE IF r = "replay" THEN "with_shaper"
  ELSE "serving"

\* Line 107.
UseSsl(o) == o.spdy # "no-ssl"

\* Lines 97-100, 101-109, 110-117: the constructor is called with these
\* arguments (those the model follows).
DnsArgs == [ host |-> host ]
ServerArgs ==
  [ class |-> replay_server_class, host |-> host, use_ssl |-> UseSsl(options) ]
ShaperArgs ==
  [ host |-> host, up |-> options.up, down |-> options.down,
    delay_ms |-> options.delay_ms,
    packet_loss_rate |-> options.packet_loss_rate,
    init_cwnd |-> options.init_cwnd ]

\* The with statement evaluates the context expression: the constructor of
\* resource r is called.
Construct(r) ==
  /\ pc = WithPc(r)
  /\ res[r] = "idle"
  /\ res' = [ res EXCEPT ![r] = "entering" ]
  /\ dns_args' = IF r = "dns" THEN DnsArgs ELSE dns_args
  /\ server_args' = IF r = "replay" THEN ServerArgs ELSE server_args
  /\ shaper_args' = IF r = "shaper" THEN ShaperArgs ELSE shaper_args
  /\ UNCHANGED << options, args, archive0, replay_server_class, host,
                  events >>
  /\ UNCHANGED << procVars, dnsVars, httpVars >>
  /\ UNCHANGED trackerVars

\* The exception a resource raises when the platform refuses it: the DNS
\* server and the shaper have a kind of their own, the replay server fails
\* with an I/O error on the archive or the socket.
ResourceException(r) ==
  IF r = "dns" THEN "DnsProxyException"
  ELSE IF r = "shaper" THEN "TrafficShaperException"
  ELSE "Other"

\* Construction or __enter__ of r raises, before any side effect (privileged
\* operations fail rather than proceed partially).
EnterFails(r) ==
  /\ pc = WithPc(r)
  /\ res[r] = "entering"
  /\ res' = [ res EXCEPT ![r] = "failed" ]
  /\ exc' = ResourceException(r)
  /\ pc' = "unwind"
  /\ UNCHANGED << options, args, stderr, logged, exitKind, exitCode,
                  archive0, replay_server_class, host, dns_args, server_args,
                  shaper_args, events >>
  /\ UNCHANGED << dnsVars, httpVars >>
  /\ UNCHANGED trackerVars

\* The side effects of r take place, inside its constructor or __enter__:
\* the DNS server redirects the local resolver to host, the replay server
\* loads the archive and listens, the shaper installs its rules.
ApplyEffects(r) ==
  /\ pc = WithPc(r)
  /\ res[r] = "entering"
  /\ res' = [ res EXCEPT ![r] = "partial" ]
  /\ IF r = "dns"
       THEN /\ savedDns' = SnapshotDns(savedDns, sysDns)
            /\ sysDns' = host
       ELSE UNCHANGED << savedDns, sysDns >>
  /\ IF r = "replay"
       THEN /\ archive' \in SUBSET Keys
            /\ archive0' = archive'
       ELSE UNCHANGED << archive, archive0 >>
  /\ UNCHANGED << options, args, replay_server_class, host, dns_args,
                  server_args, shaper_args, events, setCalls, setDone,
                  restoreCalls, nRequests, lastRequest, lastResponse,
                  originFetches >>
  /\ UNCHANGED procVars
  /\ UNCHANGED trackerVars

\* __enter__ of r returns: the body of its with statement starts, and from
\* here on the with statement owes r its __exit__.
Entered(r) ==
  /\ pc = WithPc(r)
  /\ res[r] = "partial"
  /\ res' = [ res EXCEPT ![r] = "active" ]
  /\ events' = Append(events, << "enter", r >>)
  /\ pc' = AfterWith(r)
  /\ UNCHANGED << options, args, stderr, logged, exitKind, exitCode, exc,
                  archive0, replay_server_class, host, dns_args, server_args,
                  shaper_args >>
  /\ UNCHANGED << dnsVars, httpVars >>
  /\ UNCHANGED trackerVars

\* What an exception raised in the main thread leaves of a resource: one
\* whose with statement was entered stays owed its __exit__; one caught in
\* its constructor or __enter__ is dropped, with the side effects it had
\* applied by then.
AfterRaise(st) ==
  IF st = "entering" THEN "failed"
  ELSE IF st = "partial" THEN "leaked"
  ELSE st

\* KeyboardInterrupt anywhere inside the try block of lines 93-119.
Interrupt ==
  /\ pc \in { "try", "with_dns", "with_replay", "with_shaper", "serving" }
  /\ exc' = "KeyboardInterrupt"
  /\ res' = [ r \in ResourceSet |-> AfterRaise(res[r]) ]
  /\ pc' = "unwind"
  /\ UNCHANGED << options, args, stderr, logged, exitKind, exitCode,
                  archive0, replay_server_class, host, dns_args, server_args,
                  shaper_args, events >>
  /\ UNCHANGED << dnsVars, httpVars >>
  /\ UNCHANGED trackerVars

\* The with statements unwind from the innermost one outwards.
ActiveIndexes(rs) == { i \in 1..Len(Resources) : rs[Resources[i]] = "active" }
MaxOf(S) == CHOOSE i \in S : \A j \in S : j <= i
MinOf(S) == CHOOSE i \in S : \A j \in S : i <= j
OutermostActive(rs) == Resources[MinOf(ActiveIndexes(rs))]
InnermostActive(rs) == Resources[MaxOf(ActiveIndexes(rs))]

\* __exit__ of the innermost entered resource: its side effects are removed.
ExitResource ==
  /\ pc = "unwind"
  /\ ActiveIndexes(res) # {}
  /\ LET r == InnermostActive(res) IN
       /\ res' = [ res EXCEPT ![r] = "closed" ]
       /\ events' = Append(events, << "exit", r >>)
       /\ sysDns' = IF r = "dns" THEN RestoredDns(savedDns, sysDns) ELSE sysDns
  /\ UNCHANGED << options, args, archive0, replay_server_class, host,
                  dns_args, server_args, shaper_args, savedDns, setCalls,
                  setDone, restoreCalls >>
  /\ UNCHANGED << procVars, httpVars >>
  /\ UNCHANGED trackerVars

\* Another KeyboardInterrupt while the with statements unwind: it replaces
\* the exception in flight, and the unwinding goes on.
UnwindInterrupt ==
  /\ pc = "unwind"
  /\ exc # "KeyboardInterrupt"
  /\ exc' = "KeyboardInterrupt"
  /\ UNCHANGED << pc, options, args, stderr, logged, exitKind, exitCode,
                  archive0 >>
  /\ UNCHANGED << dnsVars, mainVars, httpVars >>
  /\ UNCHANGED trackerVars

\* The exception reaches the except clauses of lines 120-127.
UnwindDone ==
  /\ pc = "unwind"
  /\ ActiveIndexes(res) = {}
  /\ pc' = "except"
  /\ UNCHANGED << options, args, stderr, logged, exitKind, exitCode, exc,
                  archive0 >>
  /\ UNCHANGED << dnsVars, mainVars, httpVars >>
  /\ UNCHANGED trackerVars

\* Lines 120-127: what each except clause writes.
HandlerLog(e) ==
  IF e = "KeyboardInterrupt" THEN "info"
  ELSE IF e \in { "DnsProxyException", "TrafficShaperException" }
    THEN "critical"
  ELSE "traceback"

\* The except clause runs, main returns, and sys.exit gets its result.
Handler ==
  /\ pc = "except"
  /\ logged' = logged \cup { HandlerLog(exc) }
  /\ MainReturns
  /\ UNCHANGED << options, args, exc, archive0 >>
  /\ UNCHANGED << dnsVars, mainVars, httpVars >>
  /\ UNCHANGED trackerVars

\* KeyboardInterrupt while an except clause runs: it leaves main.
HandlerInterrupt ==
  /\ pc = "except"
  /\ Uncaught("KeyboardInterrupt")
  /\ UNCHANGED << options, args, archive0 >>
  /\ UNCHANGED << dnsVars, mainVars, httpVars >>
  /\ UNCHANGED trackerVars

-----------------------------------------------------------------------------
(* The replay server's request handling (section 4.2), in its own threads  *)

Hit(k) == [ status |-> 200, body |-> k, origin |-> FALSE ]
Miss == [ status |-> 404, body |-> "", origin |-> FALSE ]
Fetched(k) == [ status |-> 200, body |-> k, origin |-> TRUE ]

Recording(class) == class = "RecordHttpProxyServer"

\* Record: forward to the origin and append the exchange to the archive.
\* Replay: answer from the archive, 404 with an empty body on a miss.
Respond(class, arch, k) ==
  IF Recording(class) THEN Fetched(k)
  ELSE IF k \in arch THEN Hit(k)
  ELSE Miss

HandleRequest(k) ==
  /\ res["replay"] = "active"
  /\ exitKind = "running"
  /\ nRequests < MaxRequests
  /\ nRequests' = nRequests + 1
  /\ lastRequest' = k
  /\ lastResponse' = Respond(server_args.class, archive, k)
  /\ originFetches' =
       IF lastResponse'.origin THEN originFetches + 1 ELSE originFetches
  /\ archive' = IF lastResponse'.origin THEN archive \cup { k } ELSE archive
  /\ UNCHANGED << options, args, archive0 >>
  /\ UNCHANGED << procVars, dnsVars, mainVars >>
  /\ UNCHANGED trackerVars

-----------------------------------------------------------------------------
(* The tracker's error responses, perftracker/app/main.py:63-74 *)

\* The format strings the handlers pass, with the conversions each holds.
NoCmdParam == [ text |-> "Bad request, no cmd param", conversions |-> 0 ]
NoSetIdParam == [ text |-> "Bad request, no set_id param", conversions |-> 0 ]
NoIdParam == [ text |-> "Bad request, no id param", conversions |-> 0 ]
CouldNotFindSetId == [ text |-> "Could not find set_id: ", conversions |-> 0 ]
CouldNotFindId == [ text |-> "Could not find id: ", conversions |-> 0 ]
CouldNotFindType == [ text |-> "Could not find type: ", conversions |-> 0 ]
UnknownCmd == [ text |-> "Bad request, unknown cmd: %s", conversions |-> 1 ]

\* format % args: Python raises TypeError unless the tuple has one value
\* for each conversion of the format.
Formats(format, nargs) == format.conversions = nargs

Response(request, status, error, body, snap, queried, hit) ==
  [ request |-> request, status |-> status, error |-> error, body |-> body,
    snap |-> snap, queried |-> queried, added |-> now, served |-> now,
    hit |-> hit ]

Raised(request, exception) ==
  Response(request, "raised", exception, << >>, 0, 0, FALSE)

\* send_error and send_json_error differ in what they write, the text or
\* the JSON object with the text as its 'error'.
SendError(request, kind, format, nargs) ==
  IF Formats(format, nargs)
    THEN Response(request, kind, format.text, << >>, 0, 0, FALSE)
    ELSE Raised(request, "TypeError")

send_error(request, format, nargs) ==
  SendError(request, "error", format, nargs)

send_json_error(request, format, nargs) ==
  SendError(request, "json_error", format, nargs)

-----------------------------------------------------------------------------
(* The datastore and the upload handlers, perftracker/app/main.py:214-309 *)

Store == [ sets |-> sets, results |-> results, summaries |-> summaries ]

\* The puts and memcache queries so far.
Work == ( Len(history) - 1 ) + nQueries

\* put: the entity tables after the put become the newest datastore.
Put(newSets, newResults, newSummaries) ==
  /\ sets' = newSets
  /\ results' = newResults
  /\ summaries' = newSummaries
  /\ history' = Append(history, [ sets |-> newSets, results |-> newResults,
                                  summaries |-> newSummaries, time |-> now ])

\* An entity's date is the time of the put that created it (the models'
\* date property); version, network_type and date stay as created.
\* models.TestSet.get(db.Key(set_id)) finding an entity.
HasSet(id) == id \in DOMAIN sets
HasSummary(id) == id \in DOMAIN summaries

\* The key a put returns, as the handler writes it.
KeyBody(id) == << << id >> >>

Written(request, id) ==
  Response(request, "ok", "", KeyBody(id), Len(history) + 1, now, FALSE)

SetUploads ==
  { [ BlankRequest EXCEPT !.path = "/set", !.cmd = c ] : c \in { "", "bogus" } }
  \cup { [ BlankRequest EXCEPT !.path = "/set", !.cmd = "create",
                               !.version = p[1], !.network = p[2] ] :
           p \in Profiles }
  \cup { [ BlankRequest EXCEPT !.path = "/set", !.cmd = "update",
                               !.set_id = i ] : i \in { 0, 1, NoSuchId } }

EntityUploads(path) ==
  { [ BlankRequest EXCEPT !.path = path, !.set_id = i, !.url = u ] :
      i \in { 0, 1, NoSuchId }, u \in Urls }

UploadTestSet(request) ==
  /\ request \in SetUploads
  /\ \/ /\ request.cmd = ""
        /\ lastResp' = send_error(request, NoCmdParam, 0)
        /\ UNCHANGED storeVars
     \/ /\ request.cmd = "create"
        /\ Work < MaxWork
        /\ Put(Append(sets, [ version |-> request.version,
                              network_type |-> request.network,
                              date |-> now, iterations |-> 0 ]),
               results, summaries)
        /\ lastResp' = Written(request, Len(sets) + 1)
     \/ /\ request.cmd = "update"
        /\ request.set_id = 0
        /\ lastResp' = send_error(request, NoSetIdParam, 0)
        /\ UNCHANGED storeVars
     \/ /\ request.cmd = "update"
        /\ request.set_id # 0
        /\ ~HasSet(request.set_id)
        /\ lastResp' = send_error(request, CouldNotFindSetId, 1)
        /\ UNCHANGED storeVars
     \/ /\ request.cmd = "update"
        /\ HasSet(request.set_id)
        /\ Work < MaxWork
        /\ Put([ sets EXCEPT ![request.set_id].iterations = 1 ],
               results, summaries)
        /\ lastResp' = Written(request, request.set_id)
     \/ /\ request.cmd \notin { "", "create", "update" }
        /\ lastResp' = send_error(request, UnknownCmd, 1)
        /\ UNCHANGED storeVars
  /\ UNCHANGED << now, ticks, cache, inflight, nQueries >>
  /\ UNCHANGED vars

UploadTestResult(request) ==
  /\ request \in EntityUploads("/result")
  /\ \/ /\ request.set_id = 0
        /\ lastResp' = send_error(request, NoSetIdParam, 0)
        /\ UNCHANGED storeVars
     \/ /\ request.set_id # 0
        /\ ~HasSet(request.set_id)
        /\ lastResp' = send_error(request, CouldNotFindSetId, 1)
        /\ UNCHANGED storeVars
     \/ /\ HasSet(request.set_id)
        /\ Work < MaxWork
        /\ Put(sets, Append(results, [ set |-> request.set_id,
                                       url |-> request.url, date |-> now ]),
               summaries)
        /\ lastResp' = Written(request, Len(results) + 1)
  /\ UNCHANGED << now, ticks, cache, inflight, nQueries >>
  /\ UNCHANGED vars

UploadTestSummary(request) ==
  /\ request \in EntityUploads("/summary")
  /\ \/ /\ request.set_id = 0
        /\ lastResp' = send_error(request, NoSetIdParam, 0)
        /\ UNCHANGED storeVars
     \/ /\ request.set_id # 0
        /\ ~HasSet(request.set_id)
        /\ lastResp' = send_error(request, CouldNotFindSetId, 1)
        /\ UNCHANGED storeVars
     \/ /\ HasSet(request.set_id)
        /\ Work < MaxWork
        /\ Put(sets, results,
               Append(summaries, [ set |-> request.set_id,
                                   url |-> request.url ]))
        /\ lastResp' = Written(request, Len(summaries) + 1)
  /\ UNCHANGED << now, ticks, cache, inflight, nQueries >>
  /\ UNCHANGED vars

-----------------------------------------------------------------------------
(* The queries of the JSON data page, perftracker/app/main.py:79-178 *)

\* The lifetimes the handlers give their memcache entries, in seconds.
SetSearchTTL == 30
SummaryTTL == 60
FiltersTTL == 60 * 30

\* The fetch limits of do_set_search and do_latestresults.
SetSearchLimit == 500
LatestResultsLimit == 25

MinOfTwo(a, b) == IF a < b THEN a ELSE b

\* The orders a set of keys can be listed in.
Orderings(S) ==
  { f \in [ 1 .. Cardinality(S) -> S ] :
      \A i, j \in DOMAIN f : i # j => f[i] # f[j] }

\* query.order("-date"): newest first, entities of one date in any order.
ByDateDescending(table, ids) ==
  { f \in Orderings(ids) :
      \A i \in DOMAIN f : \A j \in DOMAIN f :
        i < j => table[f[i]].date >= table[f[j]].date }

\* A query without an order lists by key.
ByKey(ids) ==
  CHOOSE f \in Orderings(ids) :
    \A i \in DOMAIN f : \A j \in DOMAIN f : i < j => f[i] < f[j]

\* sorted(values)
Sorted(values) == ByKey(values)

\* query.fetch(limit)
Fetch(listing, limit) == SubSeq(listing, 1, MinOfTwo(limit, Len(listing)))

\* What json.encode is given for an entity: its key and its properties.
SetItem(store, i) ==
  << i, store.sets[i].version, store.sets[i].network_type,
     store.sets[i].date, store.sets[i].iterations >>
ResultItem(store, i) ==
  << i, store.results[i].set, store.results[i].url, store.results[i].date >>
SummaryItem(store, i) ==
  << i, store.summaries[i].set, store.summaries[i].url >>

SetItems(store, listing) ==
  [ n \in DOMAIN listing |-> SetItem(store, listing[n]) ]
ResultItems(store, listing) ==
  [ n \in DOMAIN listing |-> ResultItem(store, listing[n]) ]
SummaryItems(store, listing) ==
  [ n \in DOMAIN listing |-> SummaryItem(store, listing[n]) ]

\* The filters of do_set_search without the one on version.
MatchingNetworksOnly(store, request) ==
  { i \in DOMAIN store.sets :
      request.networks_filter # {}
        => store.sets[i].network_type \in request.networks_filter }

\* The filters of do_set_search, lines 90-93.
Matching(store, request) ==
  { i \in DOMAIN store.sets :
      /\ request.networks_filter # {}
           => store.sets[i].network_type \in request.networks_filter
      /\ request.version_filter # {}
           => store.sets[i].version \in request.version_filter }

\* The bodies do_set_search can write for a request, lines 86-99.
SetSearchBodies(store, request) ==
  { SetItems(store, Fetch(listing, SetSearchLimit)) :
      listing \in ByDateDescending(store.sets, Matching(store, request)) }

\* The versions and networks of do_filters as the query lists them, each
\* TestSet's in turn.
FiltersBodyUnsorted(store) ==
  << [ i \in DOMAIN store.sets |-> store.sets[i].version ],
     [ i \in DOMAIN store.sets |-> store.sets[i].network_type ] >>

\* The body of do_filters, lines 158-169.
FiltersBody(store) ==
  << Sorted({ store.sets[i].version : i \in DOMAIN store.sets }),
     Sorted({ store.sets[i].network_type : i \in DOMAIN store.sets }) >>

\* The body of do_summary, lines 139-146.
SummaryBody(store, id) ==
  << SummaryItem(store, id) >>
    \o ResultItems(store,
                   ByKey({ i \in DOMAIN store.results :
                            /\ store.results[i].set = store.summaries[id].set
                            /\ store.results[i].url = store.summaries[id].url }))

\* The body of do_set, lines 116-119.
SetBody(store, id) ==
  << SetItem(store, id) >>
    \o SummaryItems(store,
                    ByKey({ i \in DOMAIN store.summaries :
                             store.summaries[i].set = id }))

\* The bodies of do_latestresults with the results listed by key.
LatestResultsByKey(store) ==
  { ResultItems(store,
                Fetch(ByKey(DOMAIN store.results), LatestResultsLimit)) }

\* The bodies do_latestresults can write, lines 175-178.
LatestResultsBodies(store) ==
  { ResultItems(store, Fetch(listing, LatestResultsLimit)) :
      listing \in ByDateDescending(store.results, DOMAIN store.results) }

-----------------------------------------------------------------------------
(* JSONDataPage and memcache, perftracker/app/main.py:79-211 *)

Json(type) == [ BlankRequest EXCEPT !.path = "/json", !.type = type ]

\* The requests get answers without memcache: no type, the types of lines
\* 195 and 211, do_set, do_latestresults and do_summary without an id.
DirectGets ==
  { Json(t) : t \in { "", "result", "bogus", "latestresults" } }
  \cup { [ Json("set") EXCEPT !.id = i ] : i \in { 0, 1, NoSuchId } }
  \cup { [ Json("summary") EXCEPT !.id = 0 ] }

\* The requests that go to memcache first.
CachedGets ==
  { Json("filters") }
  \cup { [ Json("summary") EXCEPT !.id = i ] : i \in { 1, NoSuchId } }
  \cup { Json("set_search"),
         [ Json("set_search") EXCEPT !.networks_filter = { 1, 2 },
                                     !.version_filter = { 1 } ],
         [ Json("set_search") EXCEPT !.set_id = NoSuchId ] }

\* memcache_key: "filters", "summary." + id, "set_search." + query string.
MemcacheKey(request) ==
  << request.type, request.id, request.networks_filter,
     request.version_filter, request.set_id >>

TTL(request) ==
  CASE request.type = "set_search" -> SetSearchTTL
    [] request.type = "summary" -> SummaryTTL
    [] request.type = "filters" -> FiltersTTL

\* memcache keeps an entry for its lifetime.
Live(entry, time) == time < entry.added + entry.ttl

Cached(key) == { e \in cache : e.key = key }

Get(request) ==
  /\ request \in DirectGets
  /\ \/ /\ request.type = ""
        /\ lastResp' = send_json_error(request, CouldNotFindType, 1)
     \/ /\ request.type = "result"
        /\ lastResp' = Response(request, "none", "", << >>, 0, 0, FALSE)
     \/ /\ request.type \in { "set", "summary" }
        /\ request.id = 0
        /\ lastResp' = send_json_error(request, NoIdParam, 0)
     \/ /\ request.type = "set"
        /\ request.id # 0
        /\ ~HasSet(request.id)
        /\ lastResp' = send_json_error(request, CouldNotFindId, 1)
     \/ /\ request.type = "set"
        /\ HasSet(request.id)
        /\ lastResp' = Response(request, "ok", "", SetBody(Store, request.id),
                                Len(history), now, FALSE)
     \/ /\ request.type = "latestresults"
        /\ \E body \in LatestResultsBodies(Store) :
             lastResp' = Response(request, "ok", "", body,
                                  Len(history), now, FALSE)
     \/ /\ request.type = "bogus"
        /\ lastResp' = Response(request, "ok", "", << >>, 0, 0, FALSE)
  /\ UNCHANGED << now, ticks, storeVars, cache, inflight, nQueries >>
  /\ UNCHANGED vars

\* memcache.get of lines 81, 129, 153 finding a live entry, which is written
\* as it is.
MemcacheHit(request) ==
  /\ request \in CachedGets
  /\ \E e \in Cached(MemcacheKey(request)) :
       lastResp' = [ Response(request, "ok", "", e.body, e.snap, e.queried,
                              TRUE)
                     EXCEPT !.added = e.added ]
  /\ UNCHANGED << now, ticks, storeVars, cache, inflight, nQueries >>
  /\ UNCHANGED vars

Queried(i, request, body) ==
  inflight' = [ inflight EXCEPT ![i] = [ at |-> "add", request |-> request,
                                         body |-> body,
                                         snap |-> Len(history),
                                         queried |-> now ] ]

\* memcache.get finding nothing and the datastore queries that follow,
\* lines 86-99, 134-146, 158-169.  The two are one step: what memcache.get
\* returned is settled, and the queries read the datastore only, so a step
\* of another request between them can as well come before both.
Query(i, request) ==
  /\ request \in CachedGets
  /\ Cached(MemcacheKey(request)) = {}
  /\ inflight[i] = IdleSlot
  /\ \A j \in Slots : j < i => inflight[j] # IdleSlot
  /\ \/ /\ request.type = "set_search"
        /\ request.set_id # 0
        /\ ~HasSet(request.set_id)
        /\ lastResp' = Raised(request, "AttributeError")
        /\ UNCHANGED << inflight, nQueries >>
     \/ /\ request.type = "set_search"
        /\ request.set_id # 0 => HasSet(request.set_id)
        /\ \E body \in SetSearchBodies(Store, request) :
             Queried(i, request, body)
        /\ Work < MaxWork
        /\ nQueries' = nQueries + 1
        /\ lastResp' = NoResp
     \/ /\ request.type = "summary"
        /\ ~HasSummary(request.id)
        /\ lastResp' = send_json_error(request, CouldNotFindId, 1)
        /\ UNCHANGED << inflight, nQueries >>
     \/ /\ request.type = "summary"
        /\ HasSummary(request.id)
        /\ Queried(i, request, SummaryBody(Store, request.id))
        /\ Work < MaxWork
        /\ nQueries' = nQueries + 1
        /\ lastResp' = NoResp
     \/ /\ request.type = "filters"
        /\ Queried(i, request, FiltersBody(Store))
        /\ Work < MaxWork
        /\ nQueries' = nQueries + 1
        /\ lastResp' = NoResp
  /\ UNCHANGED << now, ticks, storeVars, cache >>
  /\ UNCHANGED vars

\* memcache.add of lines 100, 147, 170, which leaves a live entry of the
\* key alone, and the write of the response just computed.
MemcacheAdd(i) ==
  LET slot == inflight[i]
      key == MemcacheKey(slot.request) IN
  /\ slot.at = "add"
  /\ cache' = IF Cached(key) # {}
                THEN cache
                ELSE cache \cup { [ key |-> key, body |-> slot.body,
                                   added |-> now, ttl |-> TTL(slot.request),
                                   snap |-> slot.snap,
                                   queried |-> slot.queried ] }
  /\ lastResp' = Response(slot.request, "ok", "", slot.body, slot.snap,
                          slot.queried, FALSE)
  /\ inflight' = [ inflight EXCEPT ![i] = IdleSlot ]
  /\ UNCHANGED << now, ticks, storeVars, nQueries >>
  /\ UNCHANGED vars

\* Time passing; memcache drops the entries whose lifetime is over.
TickSteps == { SetSearchTTL, FiltersTTL }

Tick(d) ==
  /\ d \in TickSteps
  /\ ticks < MaxTicks
  /\ ticks' = ticks + 1
  /\ now' = now + d
  /\ cache' = { e \in cache : Live(e, now + d) }
  /\ lastResp' = NoResp
  /\ UNCHANGED << storeVars, inflight, nQueries >>
  /\ UNCHANGED vars

TrackerNext ==
  \/ \E d \in TickSteps : Tick(d)
  \/ \E request \in SetUploads : UploadTestSet(request)
  \/ \E request \in EntityUploads("/result") : UploadTestResult(request)
  \/ \E request \in EntityUploads("/summary") : UploadTestSummary(request)
  \/ \E request \in DirectGets : Get(request)
  \/ \E request \in CachedGets : MemcacheHit(request)
  \/ \E i \in Slots : \E request \in CachedGets : Query(i, request)
  \/ \E i \in Slots : MemcacheAdd(i)

-----------------------------------------------------------------------------
Next ==
  \/ ParseArgs
  \/ Validate
  \/ Killed
  \/ InterruptOutsideTry
  \/ MainEntry
  \/ PointDns
  \/ SelectServerClass
  \/ TryBegin
  \/ HostLookupFails
  \/ \E r \in ResourceSet :
       Construct(r) \/ EnterFails(r) \/ ApplyEffects(r) \/ Entered(r)
  \/ Interrupt
  \/ ExitResource
  \/ UnwindInterrupt
  \/ UnwindDone
  \/ Handler
  \/ HandlerInterrupt
  \/ \E k \in Keys : HandleRequest(k)

Spec == Init /\ [][Next]_allVars

SpecTracker == Init /\ [][TrackerNext]_allVars

-----------------------------------------------------------------------------
(* Vocabulary of the properties *)

\* main() is over: it returned, or an exception left it.
MainOver == exitKind \in { "returned", "uncaught" }

\* The command line is past the validation of lines 247-264.
Validated == pc \notin { "parse", "validate" }

\* main() has been called and the process is still there.
InMain == pc \notin { "parse", "validate", "exited" }

ClientMode == Truthy(options.server)

NetworkFields == { "up", "down", "delay_ms", "packet_loss_rate", "init_cwnd" }

\* --record together with an option the validation tests against it.
RecordConflict(o) ==
  o.record /\ ( o.up # "0" \/ o.down # "0" \/ o.delay_ms # "0"
                \/ o.packet_loss_rate # "0" \/ Truthy(o.spdy) )

\* The argument errors: no replay_file without --server, --record with a
\* tested option, --server with --server_mode.
ArgumentError(o, a) ==
  \/ ~Truthy(o.server) /\ Len(a) # 1
  \/ RecordConflict(o)
  \/ Truthy(o.server) /\ o.server_mode

IsPrefix(s, t) == Len(s) <= Len(t) /\ \A i \in 1..Len(s) : s[i] = t[i]
Reverse(s) == [ i \in 1..Len(s) |-> s[Len(s) + 1 - i] ]
IsEnter(e) == e[1] = "enter"
IsExit(e) == e[1] = "exit"
Names(s) == [ i \in 1..Len(s) |-> s[i][2] ]
Started == Names(SelectSeq(events, IsEnter))
Stopped == Names(SelectSeq(events, IsExit))
InSeq(x, s) == \E i \in 1..Len(s) : s[i] = x

\* The side effects of r are in place.
InEffect(r) == res[r] \in { "partial", "active", "leaked" }

-----------------------------------------------------------------------------
(* C1: in client mode, once set_primary_dns was invoked, every way the      *)
(* process ends has restore_primary_dns invoked first, and the platform's   *)
(* primary DNS at exit is what it was at entry.                             *)
C1_RestoreOnEveryExit ==
  /\ ( pc = "exited" /\ setDone > 0 ) => restoreCalls > 0
  /\ ( pc = "exited" /\ setCalls > 0 ) => sysDns = OriginalDns

(* C2: when main is over, every scoped resource whose side effects were     *)
(* started has had its teardown run, whatever the exit path.                *)
C2_TeardownOnEveryExit ==
  MainOver => \A r \in ResourceSet : ~InEffect(r)

(* C3: the with statements are entered in the order DNS server, replay      *)
(* server, traffic shaper; the entered ones are exited in the reverse       *)
(* order, each only when none entered after it is still active; when main   *)
(* is over every entered one has been exited.                               *)
C3_FixedOrderReverseTeardown ==
  /\ IsPrefix(Started, Resources)
  /\ IsPrefix(Stopped, Reverse(Started))
  /\ \A r \in ResourceSet :
       res[r] = "active" <=> (InSeq(r, Started) /\ ~InSeq(r, Stopped))
  /\ \A i, j \in 1..Len(Resources) :
       (i < j /\ res[Resources[j]] = "active") => res[Resources[i]] = "active"
  /\ MainOver => Stopped = Reverse(Started)

C3_Witness ==
  /\ exitKind = "returned"
  /\ Started = Resources
  /\ Stopped = << "shaper", "replay", "dns" >>

(* C4: --record with a non-default --up, --down, --delay_ms,                *)
(* --packet_loss_rate or --init_cwnd is rejected as an argument error       *)
(* before main runs, so in a record session the traffic shaper is never     *)
(* constructed with a non-zero field.                                       *)
C4_RecordExcludesNetworkOptions ==
  /\ ( ~ClientMode /\ options.record
       /\ \E f \in NetworkFields : options[f] # "0" )
       => ~InMain
  /\ ( options.record /\ res["shaper"] # "idle" )
       => \A f \in NetworkFields : shaper_args[f] = "0"

C6_ArgumentErrorExitsOne ==
  exitKind = "argerror" => ( exitCode = 1 /\ stderr # "" )

(* C6, amended: every argument error (no replay_file without --server;      *)
(* --record with --up, --down, --delay_ms, --packet_loss_rate or --spdy;    *)
(* --server with --server_mode) ends the process with exit code 2 after a   *)
(* message on stderr, and main is never run.                                *)
C6_ArgumentErrorExitsTwo ==
  /\ exitKind = "argerror" => ( exitCode = 2 /\ stderr # "" )
  /\ ArgumentError(options, args) =>
       /\ pc \in { "parse", "validate", "exited" }
       /\ exitKind \in { "running", "argerror", "killed", "uncaught" }
       /\ exitKind = "uncaught" => exc = "KeyboardInterrupt"

C6_Witness ==
  /\ exitKind = "argerror"
  /\ options.record
  /\ Truthy(options.spdy)
  /\ stderr = "Option --spdy cannot be used with --record."

(* C7: the exit code tells how the session ended: a DnsProxyException or    *)
(* TrafficShaperException is logged at critical and gives exit code 2, a    *)
(* failure to read the archive gives exit code 3, and exit code 0 comes     *)
(* only from a shutdown the operator asked for.                             *)
C7_ExitCodeIdentifiesEnding ==
  /\ ( exitKind = "returned"
       /\ exc \in { "DnsProxyException", "TrafficShaperException" } )
       => ( "critical" \in logged /\ exitCode = 2 )
  /\ ( exitKind = "returned" /\ exc = "Other" /\ res["replay"] = "failed" )
       => exitCode = 3
  /\ exitCode = 0 => ( "info" \in logged /\ exc \in { "none", "KeyboardInterrupt" } )

(* C8: in client mode the platform DNS state is set exactly once and        *)
(* restored exactly once: restore_primary_dns is invoked once, and only     *)
(* after a set_primary_dns call returned normally.                          *)
C8_SetOnceRestoreOnce ==
  /\ setCalls <= 1
  /\ restoreCalls <= 1
  /\ restoreCalls = 1 => setDone = 1
  /\ ( MainOver /\ setDone = 1 ) => restoreCalls = 1

(* C9, as stated: with --server the process only points the primary DNS at  *)
(* the server, whatever --record and --spdy say.                            *)
C9_ClientModeIgnoresModeFlags ==
  ( ClientMode /\ ~options.server_mode /\ Validated
    /\ \A f \in NetworkFields : options[f] = "0" )
    => ( exitKind # "argerror" /\ \A r \in ResourceSet : res[r] = "idle" )

(* C9, amended: with --server, once the validation has accepted the command *)
(* line, the process only points the primary DNS at the server and blocks   *)
(* until interrupted; it starts no DNS server, replay server or traffic     *)
(* shaper and needs no replay_file.  --record and --spdy are ignored by     *)
(* main, but the validation still rejects --record with --spdy or with      *)
(* --up, --down, --delay_ms or --packet_loss_rate, as it rejects --server   *)
(* with --server_mode.                                                      *)
C9_ClientModeOnlyPointsDns ==
  ( ClientMode /\ Validated ) =>
    /\ \A r \in ResourceSet : res[r] = "idle"
    /\ replay_server_class = "unset" /\ host = "unset"
    /\ nRequests = 0
    /\ sysDns \in { OriginalDns, options.server }
    /\ exitKind = "argerror"
         => ( options.server_mode \/ RecordConflict(options) )
    /\ exitKind = "returned" => "info" \in logged
    /\ pc \in { "main", "pd_get", "pd_set", "pd_set2", "pd_sleep",
                "pd_except", "pd_finally", "exited" }

C9_Witness ==
  /\ pc = "pd_sleep"
  /\ options.record
  /\ args = << >>
  /\ sysDns = ServerIP

(* C10: in replay mode every request whose key is not in the archive gets   *)
(* 404 with an empty body; the miss leaves the session running, the archive *)
(* as it was, and reaches no real origin.                                   *)
C10_MissIs404 ==
  [][ ( nRequests' = nRequests + 1 /\ ~options.record
        /\ lastRequest' \notin archive )
      => /\ lastResponse' = Miss
         /\ originFetches' = 0
         /\ archive' = archive0
         /\ pc' = pc /\ res' = res /\ exitKind' = exitKind ]_vars

C10_Witness ==
  /\ ~options.record
  /\ nRequests >= 2
  /\ lastRequest \notin archive
  /\ lastResponse.status = 404
  /\ pc = "serving"

(* C11: one replay server class is chosen at startup, by the mode alone:   *)
(* the recording proxy with --record whatever --spdy says, the SPDY server  *)
(* with --spdy and no --record, the HTTP replay proxy otherwise; the choice *)
(* stays what it is for the whole session.                                  *)
ExpectedClass(o) ==
  CASE o.record -> "RecordHttpProxyServer"
    [] ~o.record /\ Truthy(o.spdy) -> "ReplaySpdyServer"
    [] OTHER -> "ReplayHttpProxyServer"

C11_ServerClassByMode ==
  /\ \A o \in OptionSpace : ReplayServerClass(o) = ExpectedClass(o)
  /\ replay_server_class \in { "unset", ExpectedClass(options) }
  /\ pc \in { "try", "with_dns", "with_replay", "with_shaper", "serving",
              "unwind", "except" }
       => replay_server_class = ExpectedClass(options)
  /\ res["replay"] # "idle" => server_args.class = ExpectedClass(options)

C11_Witness ==
  /\ pc = "serving"
  /\ server_args.class = "ReplaySpdyServer"
  /\ nRequests >= 1

C13_ShaperCoversServerLifetime ==
  ( exitKind = "running" /\ res["dns"] = "active" /\ res["replay"] = "active" )
    => res["shaper"] = "active"

(* C13, amended: the shaper is active throughout the serving loop, and     *)
(* never without the replay server and the DNS server; the replay server is *)
(* active without it only while the shaper is being started (it is entered  *)
(* last) and after it was torn down (it is exited first).                   *)
C13_ShaperCoversServingLoop ==
  /\ pc = "serving" => \A r \in ResourceSet : res[r] = "active"
  /\ res["shaper"] = "active"
       => ( res["replay"] = "active" /\ res["dns"] = "active" )
  /\ ( res["replay"] = "active" /\ res["shaper"] # "active" )
       => pc \in { "with_shaper", "unwind", "except", "exited" }

C13_Witness ==
  /\ pc = "with_shaper"
  /\ res["dns"] = "active"
  /\ res["replay"] = "active"
  /\ res["shaper"] = "idle"
  /\ nRequests >= 1

(* C18: when the validation rejects the command line nothing has been done *)
(* to the platform: set_primary_dns was not called and no DNS server,       *)
(* replay server or traffic shaper was constructed; main only ever runs on  *)
(* a command line the validation accepts.                                   *)
C18_RejectionHasNoSideEffect ==
  /\ exitKind = "argerror" =>
       /\ setCalls = 0 /\ restoreCalls = 0
       /\ sysDns = OriginalDns /\ savedDns = "unset"
       /\ \A r \in ResourceSet : res[r] = "idle"
       /\ dns_args = UnsetDnsArgs
       /\ server_args = UnsetServerArgs
       /\ shaper_args = UnsetShaperArgs
       /\ events = << >>
       /\ nRequests = 0
  /\ InMain => ~ArgumentError(options, args)

C18_Witness ==
  /\ exitKind = "argerror"
  /\ ClientMode
  /\ options.server_mode
  /\ sysDns = OriginalDns

-----------------------------------------------------------------------------
(* Vocabulary of the tracker's properties *)

\* The step just taken answered a JSONDataPage request of a type with a body.
Answered(type) ==
  /\ lastResp.request.path = "/json"
  /\ lastResp.request.type = type
  /\ lastResp.status = "ok"

Range(seq) == { seq[n] : n \in DOMAIN seq }
Ascending(seq) == \A m, n \in DOMAIN seq : m < n => seq[m] < seq[n]

\* The request of the step just taken is one its handler cannot proceed on.
CannotProceed ==
  LET q == lastResp.request IN
  \/ q.path = "/json" /\ q.type = ""
  \/ q.path = "/json" /\ q.type = "set" /\ q.id # 0 /\ q.id \notin DOMAIN sets
  \/ /\ q.path = "/json" /\ q.type = "summary"
     /\ q.id # 0 /\ q.id \notin DOMAIN summaries
  \/ /\ q.path \in { "/result", "/summary" }
     /\ q.set_id # 0 /\ q.set_id \notin DOMAIN sets
  \/ /\ q.path = "/set" /\ q.cmd = "update"
     /\ q.set_id # 0 /\ q.set_id \notin DOMAIN sets
  \/ q.path = "/set" /\ q.cmd \notin { "", "create", "update" }

\* The error message was written, as the endpoint writes it.
ErrorWritten ==
  LET q == lastResp.request IN
  /\ lastResp.status = IF q.path = "/json" THEN "json_error" ELSE "error"
  /\ lastResp.error =
       CASE q.path = "/json" /\ q.type = "" -> "Could not find type: "
         [] q.path = "/json" /\ q.type # "" -> "Could not find id: "
         [] q.path = "/set" /\ q.cmd # "update"
              -> "Bad request, unknown cmd: %s"
         [] OTHER -> "Could not find set_id: "

(* C14: a handler that cannot proceed (no type; do_set or do_summary with  *)
(* an id of no entity; an upload or update with a set_id of no TestSet; an  *)
(* unknown cmd) writes its error message, as a JSON 'error' on the JSON     *)
(* endpoint, and returns without raising and without a put.                 *)
C14_ErrorWrittenNotRaised ==
  [][ CannotProceed' => ( ErrorWritten' /\ UNCHANGED storeVars ) ]_allVars

(* C15, as stated: with the requests handled one after another, a filters *)
(* response lists exactly the distinct versions and network types of the    *)
(* TestSets in the datastore when it is served, each list ascending.        *)
ListsValuesOf(body, store) ==
  /\ Len(body) = 2
  /\ Ascending(body[1])
  /\ Ascending(body[2])
  /\ Range(body[1]) = { store.sets[i].version : i \in DOMAIN store.sets }
  /\ Range(body[2]) = { store.sets[i].network_type : i \in DOMAIN store.sets }

\* No put came between the query of the request just answered and its
\* response, as when requests are handled one at a time.
Unrivalled == lastResp.hit \/ lastResp.snap = Len(history)

C15_FiltersOfStoreWhenServed ==
  ( Answered("filters") /\ Unrivalled ) => ListsValuesOf(lastResp.body, Store)

(* C15, amended: a filters response lists exactly the distinct versions    *)
(* and network types, each ascending, of the datastore as it was when the   *)
(* request that computed the body queried it: the request itself, or for a  *)
(* response from memcache the earlier request that filled the entry, less   *)
(* than 30 minutes before.                                                  *)
C15_FiltersOfStoreWhenQueried ==
  Answered("filters") =>
    /\ lastResp.snap \in DOMAIN history
    /\ ListsValuesOf(lastResp.body, history[lastResp.snap])
    /\ lastResp.hit => lastResp.served - lastResp.added < 30 * 60
    /\ ( ~lastResp.hit /\ lastResp.snap = Len(history) )
         => ListsValuesOf(lastResp.body, Store)

C15_Witness ==
  /\ Answered("filters")
  /\ lastResp.hit
  /\ lastResp.body[1] # << >>
  /\ ~ListsValuesOf(lastResp.body, Store)

C17_LatestResultsNewestFirst ==
  ( lastResp.request.path = "/json"
    /\ lastResp.request.type = "latestresults" ) =>
    LET body == lastResp.body
        shown == { body[n][1] : n \in DOMAIN body }
    IN /\ lastResp.status = "ok"
       /\ ~lastResp.hit
       /\ lastResp.snap = Len(history)
       /\ lastResp.queried = now
       /\ \A e \in cache : e.key[1] # "latestresults"
       /\ Len(body) = IF Len(results) < 25 THEN Len(results) ELSE 25
       /\ Len(Fetch([ n \in 1 .. 26 |-> n ], LatestResultsLimit)) = 25
       /\ shown \subseteq DOMAIN results
       /\ Cardinality(shown) = Len(body)
       /\ \A n \in DOMAIN body : body[n] = ResultItem(Store, body[n][1])
       /\ \A m, n \in DOMAIN body :
            m < n => results[body[m][1]].date >= results[body[n][1]].date
       /\ \A i \in DOMAIN results \ shown : \A j \in shown :
            results[i].date <= results[j].date

C17_Witness ==
  /\ Answered("latestresults")
  /\ Len(lastResp.body) = 2
  /\ lastResp.body[1][1] = 2
  /\ results[2].date > results[1].date

\* The bodies a cache-aside request computes from a datastore.
Bodies(request, store) ==
  CASE request.type = "set_search" -> SetSearchBodies(store, request)
    [] request.type = "summary" -> { SummaryBody(store, request.id) }
    [] request.type = "filters" -> { FiltersBody(store) }

\* The step just taken answered a request of a cache-aside endpoint.
CacheAside ==
  \E type \in { "set_search", "summary", "filters" } : Answered(type)

\* The lifetimes of the claim: 30 s, 60 s and 30 min.
Seconds(type) ==
  CASE type = "set_search" -> 30
    [] type = "summary" -> 60
    [] type = "filters" -> 1800

\* r (a response or a memcache entry) holds a body computed at r.queried
\* from the datastore as it was then.
FromSnapshot(r, request) ==
  /\ r.snap \in DOMAIN history
  /\ history[r.snap].time <= r.queried
  /\ r.snap < Len(history) => r.queried <= history[r.snap + 1].time
  /\ r.body \in Bodies(request, history[r.snap])

(* C19, as stated: a response of set_search, summary or filters is the     *)
(* result computed from the datastore as it was at most the endpoint's      *)
(* lifetime (30 s, 60 s, 30 min) before the response is served.             *)
C19_SnapshotWithinTTLOfResponse ==
  CacheAside =>
    /\ FromSnapshot(lastResp, lastResp.request)
    /\ lastResp.served - lastResp.queried <= Seconds(lastResp.request.type)

=============================================================================
